---- MODULE Spec2Model ----
(***************************************************************************)
(* Model of new_pivot_hotel.py: the order log of one Google sheet is       *)
(* normalised for a target date (process_data_for_date), pivoted per       *)
(* vegetable and per vendor (create_vegetable_report_data,                 *)
(* create_vendor_report_data), laid out as two documents                   *)
(* (create_combined_report_pdf, create_individual_hotel_reports_pdf) by    *)
(* generate_reports, and shown by main.                                    *)
(*                                                                         *)
(* Strings are sequences of Unicode code points, so that Python's string   *)
(* order (sorted, sort_values) and string building (f-strings) are         *)
(* computed and not assumed.                                               *)
(***************************************************************************)
EXTENDS Integers, Sequences, FiniteSets, TLC

VARIABLES sheet, selected_date, pc, df, filtered_df, veg_report_data,
          vendor_report_data, combined_pdf_buffer, individual_hotel_pdf_buffer,
          result, messages

vars == <<sheet, selected_date, pc, df, filtered_df, veg_report_data,
          vendor_report_data, combined_pdf_buffer, individual_hotel_pdf_buffer,
          result, messages>>

----------------------------------------------------------------------------
(* Bounds of the model *)

\* longest sheet (number of data rows below the header) that is explored
MaxRows == 3

----------------------------------------------------------------------------
(* String literals, as code points *)

SP == <<32>>
LPAR == <<40>>
RPAR == <<41>>

NOVOTEL == <<78, 79, 86, 79, 84, 69, 76>>
GRANDBAY == <<71, 82, 65, 78, 68, 66, 65, 89>>
RADISSONBLU == <<82, 65, 68, 73, 83, 83, 79, 78, 66, 76, 85>>
\* ' BHEEMILI', with its leading blank
BHEEMILI_SP == <<32, 66, 72, 69, 69, 77, 73, 76, 73>>

Novotel == <<78, 111, 118, 111, 116, 101, 108>>
Grandbay == <<71, 114, 97, 110, 100, 98, 97, 121>>
Radisson == <<82, 97, 100, 105, 115, 115, 111, 110>>
Bheemili == <<66, 104, 101, 101, 109, 105, 108, 105>>

\* hotels of the sheet that are in no preferred list
ITC == <<73, 84, 67>>
TAJ == <<84, 65, 74>>

KG == <<107, 103>>
BOX == <<98, 111, 120>>
\* vegetable names: TOMATO is "T"; TOMATO_KG is "T (kg)"
TOMATO == <<84>>
TOMATO_KG == <<84, 32, 40, 107, 103, 41>>
\* two Telugu spellings entered for the same vegetable
TELUGU1 == <<3103>>
TELUGU2 == <<3118>>
V1 == <<86, 49>>
V2 == <<86, 50>>
EMPTY_STR == <<>>
\* a cell the sheet did not deliver (None / NaN in the DataFrame)
NONE == <<-1>>

\* raw DATE cells: "15/01/2024", "16/01/2024", "2024-01-15"
DATE_15 == <<49, 53, 47, 48, 49, 47, 50, 48, 50, 52>>
DATE_16 == <<49, 54, 47, 48, 49, 47, 50, 48, 50, 52>>
DATE_ISO == <<50, 48, 50, 52, 45, 48, 49, 45, 49, 53>>
\* raw QUANTITY cells: "abc", "0", "-3", "2", "5"
QTY_ABC == <<97, 98, 99>>
QTY_0 == <<48>>
QTY_NEG3 == <<45, 51>>
QTY_2 == <<50>>
QTY_5 == <<53>>

----------------------------------------------------------------------------
(* Generic helpers *)

Range(s) == {s[i] : i \in 1..Len(s)}

\* Python's str comparison: lexicographic by code point
RECURSIVE StrLess(_, _)
StrLess(a, b) ==
    IF a = <<>> THEN b # <<>>
    ELSE IF b = <<>> THEN FALSE
    ELSE IF Head(a) # Head(b) THEN Head(a) < Head(b)
    ELSE StrLess(Tail(a), Tail(b))

\* Series.unique() / drop_duplicates(): first occurrences, in order of appearance
RECURSIVE UniqueAcc(_, _)
UniqueAcc(s, acc) ==
    IF s = <<>> THEN acc
    ELSE UniqueAcc(Tail(s),
                   IF Head(s) \in Range(acc) THEN acc ELSE Append(acc, Head(s)))

Unique(s) == UniqueAcc(s, <<>>)

\* sorted(list of str): insertion into an ascending list
RECURSIVE InsertStr(_, _)
InsertStr(x, s) ==
    IF s = <<>> THEN <<x>>
    ELSE IF StrLess(x, Head(s)) THEN <<x>> \o s
    ELSE <<Head(s)>> \o InsertStr(x, Tail(s))

RECURSIVE SortedStr(_)
SortedStr(s) ==
    IF s = <<>> THEN <<>> ELSE InsertStr(s[Len(s)], SortedStr(SubSeq(s, 1, Len(s) - 1)))

\* str(n) of a non-negative integer
RECURSIVE Str(_)
Str(n) == IF n < 10 THEN <<48 + n>> ELSE Str(n \div 10) \o <<48 + (n % 10)>>

\* f"{qty} {units}"
FormatQty(qty, units) == Str(qty) \o SP \o units

----------------------------------------------------------------------------
(* Record normaliser: process_data_for_date *)

NaT == <<>>

IsDigits(s) == s # <<>> /\ \A i \in 1..Len(s) : s[i] \in 48..57

RECURSIVE DigitsVal(_)
DigitsVal(s) ==
    IF s = <<>> THEN 0 ELSE 10 * DigitsVal(SubSeq(s, 1, Len(s) - 1)) + (s[Len(s)] - 48)

\* str.split(sep) on one code point
RECURSIVE SplitAcc(_, _, _, _)
SplitAcc(s, sep, cur, acc) ==
    IF s = <<>> THEN Append(acc, cur)
    ELSE IF Head(s) = sep THEN SplitAcc(Tail(s), sep, <<>>, Append(acc, cur))
    ELSE SplitAcc(Tail(s), sep, Append(cur, Head(s)), acc)

Split(s, sep) == SplitAcc(s, sep, <<>>, <<>>)

DaysInMonth(m, y) ==
    IF m \in {4, 6, 9, 11} THEN 30
    ELSE IF m = 2
         THEN (IF (y % 4 = 0 /\ y % 100 # 0) \/ y % 400 = 0 THEN 29 ELSE 28)
         ELSE 31

\* pd.to_datetime(cell, format='%d/%m/%Y', errors='coerce'), then .dt.date:
\* <<year, month, day>>, or NaT for a cell the format does not match
ParseDate(s) ==
    LET parts == Split(s, 47) IN
    IF Len(parts) # 3 THEN NaT
    ELSE IF ~(IsDigits(parts[1]) /\ IsDigits(parts[2]) /\ IsDigits(parts[3])) THEN NaT
    ELSE IF Len(parts[1]) > 2 \/ Len(parts[2]) > 2 \/ Len(parts[3]) # 4 THEN NaT
    ELSE LET d == DigitsVal(parts[1])
             m == DigitsVal(parts[2])
             y == DigitsVal(parts[3])
         IN IF m \in 1..12 /\ d >= 1 /\ d <= DaysInMonth(m, y) THEN <<y, m, d>> ELSE NaT

\* pd.to_numeric(cell, errors='coerce').fillna(0) on integer literals:
\* anything that is not an optionally signed run of digits becomes NaN, then 0
ToNumeric(s) ==
    IF IsDigits(s) THEN DigitsVal(s)
    ELSE IF s # <<>> /\ Head(s) = 45 /\ IsDigits(Tail(s)) THEN 0 - DigitsVal(Tail(s))
    ELSE IF s # <<>> /\ Head(s) = 43 /\ IsDigits(Tail(s)) THEN DigitsVal(Tail(s))
    ELSE 0

\* df['DATE'] = pd.to_datetime(df['DATE'], ...): the caller's frame, dates parsed
WithParsedDates(frame) ==
    [i \in 1..Len(frame) |-> [frame[i] EXCEPT !.DATE = ParseDate(frame[i].DATE)]]

\* the rows process_data_for_date returns for a frame whose dates are parsed
DateFiltered(frame, date) == SelectSeq(frame, LAMBDA r : r.DATE = date)

QuantityCoerced(frame) ==
    [i \in 1..Len(frame) |-> [frame[i] EXCEPT !.QUANTITY = ToNumeric(frame[i].QUANTITY)]]

\* PositiveQuantity with >= in place of >
PositiveQuantity_KeepsZero(frame) == SelectSeq(frame, LAMBDA r : r.QUANTITY >= 0)

PositiveQuantity(frame) == SelectSeq(frame, LAMBDA r : r.QUANTITY > 0)

process_data_for_date(frame, date) ==
    IF frame = <<>> THEN <<>>
    ELSE LET by_date == DateFiltered(WithParsedDates(frame), date) IN
         IF by_date = <<>> THEN <<>>
         ELSE PositiveQuantity(QuantityCoerced(by_date))

----------------------------------------------------------------------------
(* Hotel ordering policy: lines 96-109, 162-176 and 242-254 run the same   *)
(* steps, each on its own desired_hotel_order                              *)

desired_hotel_order_vegetable == <<NOVOTEL, GRANDBAY, RADISSONBLU, BHEEMILI_SP>>
desired_hotel_order_vendor == <<NOVOTEL, GRANDBAY, RADISSONBLU, BHEEMILI_SP>>
desired_hotel_order_individual == <<Novotel, Grandbay, Radisson, Bheemili>>

\* df['MAIN HOTEL NAME'].unique()
AvailableHotels(frame) == Unique([i \in 1..Len(frame) |-> frame[i].MAIN_HOTEL_NAME])

\* RemainingHotels without the call of sorted
RemainingHotels_Unsorted(available_hotels, desired_hotel_order) ==
    SelectSeq(available_hotels, LAMBDA h : h \notin Range(desired_hotel_order))

\* sorted([h for h in available_hotels if h not in desired_hotel_order])
RemainingHotels(available_hotels, desired_hotel_order) ==
    SortedStr(SelectSeq(available_hotels, LAMBDA h : h \notin Range(desired_hotel_order)))

\* hotels: the desired ones that are available, then the remaining ones
OrderedHotels(available_hotels, desired_hotel_order) ==
    SelectSeq(desired_hotel_order, LAMBDA h : h \in Range(available_hotels))
        \o RemainingHotels(available_hotels, desired_hotel_order)

----------------------------------------------------------------------------
(* Pivot rows: the loop body shared by lines 118-148 and 192-220 *)

RECURSIVE SumQuantity(_)
SumQuantity(frame) ==
    IF frame = <<>> THEN 0 ELSE Head(frame).QUANTITY + SumQuantity(Tail(frame))

\* data[['PIVOT_VEGETABLE_NAME', 'UNITS', 'TELUGU NAME']].drop_duplicates()
VegUnitCombinations(data) ==
    Unique([i \in 1..Len(data) |->
              [PIVOT_VEGETABLE_NAME |-> data[i].PIVOT_VEGETABLE_NAME,
               UNITS |-> data[i].UNITS,
               TELUGU_NAME |-> data[i].TELUGU_NAME]])

\* VegData with the test of the unit left out
VegData_IgnoresUnits(data, veg_name, units) ==
    SelectSeq(data, LAMBDA r : r.PIVOT_VEGETABLE_NAME = veg_name)

\* data[(data['PIVOT_VEGETABLE_NAME'] == veg_name) & (data['UNITS'] == units)]
VegData(data, veg_name, units) ==
    SelectSeq(data, LAMBDA r : r.PIVOT_VEGETABLE_NAME = veg_name /\ r.UNITS = units)

\* data[data['PIVOT_VEGETABLE_NAME'] == veg_name]['UNITS'].nunique()
VegUnitsCount(data, veg_name) ==
    Cardinality({r.UNITS : r \in {x \in Range(data) : x.PIVOT_VEGETABLE_NAME = veg_name}}
                    \ {NONE})

DisplayName(data, veg_name, units) ==
    IF VegUnitsCount(data, veg_name) > 1
    THEN veg_name \o SP \o LPAR \o units \o RPAR
    ELSE veg_name

\* qty = hotel_data['QUANTITY'].sum() if not hotel_data.empty else 0
HotelQty(veg_data, hotel) ==
    LET hotel_data == SelectSeq(veg_data, LAMBDA r : r.MAIN_HOTEL_NAME = hotel)
    IN IF hotel_data # <<>> THEN SumQuantity(hotel_data) ELSE 0

\* report_row[hotel] = f"{qty} {units}" if qty > 0 else f"0 {units}"
HotelCell(veg_data, hotel, units) ==
    LET qty == HotelQty(veg_data, hotel)
    IN IF qty > 0 THEN FormatQty(qty, units) ELSE FormatQty(0, units)

\* total_qty, accumulated over the hotel columns
RECURSIVE TotalQty(_, _)
TotalQty(veg_data, hotels) ==
    IF hotels = <<>> THEN 0
    ELSE HotelQty(veg_data, Head(hotels)) + TotalQty(veg_data, Tail(hotels))

\* ReportRow with a cell only for the hotels that ordered the combination
ReportRow_OnlyHotelsWithData(data, combination, hotels) ==
    LET veg_name == combination.PIVOT_VEGETABLE_NAME
        units == combination.UNITS
        veg_data == VegData(data, veg_name, units)
    IN [PIVOT_VEGETABLE_NAME |-> DisplayName(data, veg_name, units),
        Telugu_Name |-> combination.TELUGU_NAME,
        cells |-> [h \in {x \in Range(hotels) : HotelQty(veg_data, x) > 0} |->
                     HotelCell(veg_data, h, units)],
        Total |-> FormatQty(TotalQty(veg_data, hotels), units),
        key_veg |-> veg_name,
        key_units |-> units]

\* One report_row. The dict's hotel entries are the function cells; its last
\* entry ('Total Quantity' at line 147, 'Total' at line 219) is Total.
\* key_veg and key_units record which combination the row was built for;
\* they are bookkeeping of the model and not part of the emitted row.
ReportRow(data, combination, hotels) ==
    LET veg_name == combination.PIVOT_VEGETABLE_NAME
        units == combination.UNITS
        veg_data == VegData(data, veg_name, units)
    IN [PIVOT_VEGETABLE_NAME |-> DisplayName(data, veg_name, units),
        Telugu_Name |-> combination.TELUGU_NAME,
        cells |-> [h \in Range(hotels) |-> HotelCell(veg_data, h, units)],
        Total |-> FormatQty(TotalQty(veg_data, hotels), units),
        key_veg |-> veg_name,
        key_units |-> units]

\* sort_values('PIVOT_VEGETABLE_NAME', ascending=True): a frame of fewer than
\* 17 rows is sorted by insertion, which keeps rows of equal name in order
RECURSIVE InsertRow(_, _)
InsertRow(x, s) ==
    IF s = <<>> THEN <<x>>
    ELSE IF StrLess(x.PIVOT_VEGETABLE_NAME, Head(s).PIVOT_VEGETABLE_NAME) THEN <<x>> \o s
    ELSE <<Head(s)>> \o InsertRow(x, Tail(s))

RECURSIVE SortValues(_)
SortValues(rows) ==
    IF rows = <<>> THEN <<>>
    ELSE InsertRow(rows[Len(rows)], SortValues(SubSeq(rows, 1, Len(rows) - 1)))

\* pd.DataFrame(): no columns, no rows
EmptyFrame == [columns |-> <<>>, rows |-> <<>>]

\* pd.DataFrame(report_data), sorted; columns holds the hotel columns
PivotFrame(data, hotels) ==
    LET combinations == VegUnitCombinations(data)
        report_data == [i \in 1..Len(combinations) |->
                          ReportRow(data, combinations[i], hotels)]
    IN [columns |-> hotels, rows |-> SortValues(report_data)]

create_vegetable_report_data(frame) ==
    IF frame = <<>> THEN EmptyFrame
    ELSE PivotFrame(frame,
                    OrderedHotels(AvailableHotels(frame), desired_hotel_order_vegetable))

\* Vendors without the call of sorted
Vendors_Unsorted(frame) ==
    Unique(SelectSeq([i \in 1..Len(frame) |-> frame[i].VENDOR], LAMBDA v : v # NONE))

\* sorted(df['VENDOR'].dropna().unique())
Vendors(frame) ==
    SortedStr(Unique(SelectSeq([i \in 1..Len(frame) |-> frame[i].VENDOR],
                               LAMBDA v : v # NONE)))

\* df[df['VENDOR'] == vendor]
VendorData(frame, vendor) == SelectSeq(frame, LAMBDA r : r.VENDOR = vendor)

\* create_vendor_report_data with the hotel columns taken from each vendor's rows
create_vendor_report_data_PerVendorHotels(frame) ==
    IF frame = <<>> THEN <<>>
    ELSE LET vendors == SelectSeq(Vendors(frame), LAMBDA v : v # EMPTY_STR)
         IN [i \in 1..Len(vendors) |->
               [vendor |-> vendors[i],
                data |-> PivotFrame(VendorData(frame, vendors[i]),
                                    OrderedHotels(AvailableHotels(VendorData(frame, vendors[i])),
                                                  desired_hotel_order_vendor))]]

\* the dict vendor_reports, in insertion order
create_vendor_report_data(frame) ==
    IF frame = <<>> THEN <<>>
    ELSE LET hotels == OrderedHotels(AvailableHotels(frame), desired_hotel_order_vendor)
             vendors == SelectSeq(Vendors(frame), LAMBDA v : v # EMPTY_STR)
         IN [i \in 1..Len(vendors) |->
               [vendor |-> vendors[i],
                data |-> PivotFrame(VendorData(frame, vendors[i]), hotels)]]

----------------------------------------------------------------------------
(* Individual-hotel report: create_individual_hotel_reports_pdf *)

NAN_STR == <<110, 97, 110>>

\* telugu_name if telugu_name and str(telugu_name) != 'nan' else ''
TeluguText(telugu_name) ==
    IF telugu_name \in {EMPTY_STR, NONE, NAN_STR} THEN EMPTY_STR ELSE telugu_name

\* HotelEntry with the quantity shown without its unit
HotelEntry_QuantityWithoutUnits(hotel_data, combination) ==
    LET veg_name == combination.PIVOT_VEGETABLE_NAME
        units == combination.UNITS
        total_qty == SumQuantity(VegData(hotel_data, veg_name, units))
    IN [name |-> DisplayName(hotel_data, veg_name, units),
        telugu |-> TeluguText(combination.TELUGU_NAME),
        quantity |-> Str(total_qty),
        total_qty |-> total_qty,
        key_veg |-> veg_name,
        key_units |-> units]

\* One candidate line of a hotel's list (lines 333-354), with its total_qty.
\* key_veg and key_units are bookkeeping of the model, as in ReportRow.
HotelEntry(hotel_data, combination) ==
    LET veg_name == combination.PIVOT_VEGETABLE_NAME
        units == combination.UNITS
        total_qty == SumQuantity(VegData(hotel_data, veg_name, units))
    IN [name |-> DisplayName(hotel_data, veg_name, units),
        telugu |-> TeluguText(combination.TELUGU_NAME),
        quantity |-> FormatQty(total_qty, units),
        total_qty |-> total_qty,
        key_veg |-> veg_name,
        key_units |-> units]

\* hotel_report_data.sort(key=lambda x: x[0]): a stable sort on the name
RECURSIVE InsertEntry(_, _)
InsertEntry(x, s) ==
    IF s = <<>> THEN <<x>>
    ELSE IF StrLess(x.name, Head(s).name) THEN <<x>> \o s
    ELSE <<Head(s)>> \o InsertEntry(x, Tail(s))

RECURSIVE SortEntries(_)
SortEntries(entries) ==
    IF entries = <<>> THEN <<>>
    ELSE InsertEntry(entries[Len(entries)],
                     SortEntries(SubSeq(entries, 1, Len(entries) - 1)))

\* hotel_report_data of one hotel: the entries with total_qty > 0, sorted
HotelReportData(hotel_data) ==
    LET combinations == VegUnitCombinations(hotel_data)
        entries == [i \in 1..Len(combinations) |-> HotelEntry(hotel_data, combinations[i])]
    IN SortEntries(SelectSeq(entries, LAMBDA e : e.total_qty > 0))

\* The blocks appended for one hotel (lines 288-408): its title, then the
\* "No orders found" paragraph, or the table with its summary count, or the
\* "No items" paragraph; page_break tells whether a PageBreak follows.
HotelSection(frame, hotels, hotel_index) ==
    LET hotel == hotels[hotel_index]
        hotel_data == SelectSeq(frame, LAMBDA r : r.MAIN_HOTEL_NAME = hotel)
        hotel_report_data == IF hotel_data = <<>> THEN <<>> ELSE HotelReportData(hotel_data)
    IN [hotel |-> hotel,
        body |-> IF hotel_data = <<>> THEN "no_orders"
                 ELSE IF hotel_report_data # <<>> THEN "table" ELSE "no_items",
        table |-> hotel_report_data,
        total_items |-> Len(hotel_report_data),
        page_break |-> hotel_index < Len(hotels)]

\* the story of the individual-hotel document
IndividualStory(frame) ==
    LET hotels == OrderedHotels(AvailableHotels(frame), desired_hotel_order_individual)
    IN [i \in 1..Len(hotels) |-> HotelSection(frame, hotels, i)]

NoBuffer == [is_none |-> TRUE, raised |-> FALSE, story |-> <<>>]
Raised == [is_none |-> TRUE, raised |-> TRUE, story |-> <<>>]
Buffer(story) == [is_none |-> FALSE, raised |-> FALSE, story |-> story]

\* render_ok: whether doc.build(story) succeeds
create_individual_hotel_reports_pdf(frame, render_ok) ==
    IF frame = <<>> THEN NoBuffer
    ELSE IF render_ok THEN Buffer(IndividualStory(frame)) ELSE Raised

----------------------------------------------------------------------------
(* Combined report: create_combined_report_pdf *)

Block(kind, vendor, table) == [kind |-> kind, vendor |-> vendor, table |-> table]

\* table_data of a frame: the Telugu cell of each row cleaned (lines 456-470)
TableData(frame) ==
    [i \in 1..Len(frame.rows) |->
        [frame.rows[i] EXCEPT !.Telugu_Name = TeluguText(frame.rows[i].Telugu_Name)]]

\* the blocks of one vendor (lines 511-573)
VendorBlocks(vendor_data, i) ==
    (IF i > 1 THEN <<Block("PageBreak", <<>>, <<>>)>> ELSE <<>>)
        \o <<Block("VendorTitle", vendor_data[i].vendor, <<>>),
             Block("VendorTable", vendor_data[i].vendor, TableData(vendor_data[i].data))>>

RECURSIVE AllVendorBlocks(_, _)
AllVendorBlocks(vendor_data, i) ==
    IF i > Len(vendor_data) THEN <<>>
    ELSE VendorBlocks(vendor_data, i) \o AllVendorBlocks(vendor_data, i + 1)

CombinedStory(veg_data, vendor_data) ==
    <<Block("Title", <<>>, <<>>), Block("Section1", <<>>, <<>>)>>
        \o (IF veg_data.rows = <<>>
            THEN <<Block("NoVegetableData", <<>>, <<>>)>>
            ELSE <<Block("VegetableTable", <<>>, TableData(veg_data))>>)
        \o <<Block("PageBreak", <<>>, <<>>), Block("Section2", <<>>, <<>>)>>
        \o (IF vendor_data = <<>>
            THEN <<Block("NoVendorData", <<>>, <<>>)>>
            ELSE AllVendorBlocks(vendor_data, 1))

\* available_width is assigned at line 473 only, in the branch of a non-empty
\* vegetable table, and read at lines 551-555 for every vendor
AvailableWidthUnbound(veg_data, vendor_data) ==
    veg_data.rows = <<>> /\ vendor_data # <<>>

create_combined_report_pdf(veg_data, vendor_data, render_ok) ==
    IF AvailableWidthUnbound(veg_data, vendor_data) THEN Raised
    ELSE IF render_ok THEN Buffer(CombinedStory(veg_data, vendor_data)) ELSE Raised

----------------------------------------------------------------------------
(* The run of main: one press of "Generate Reports" *)

Message(level, text) == [level |-> level, text |-> text]

NoneResult ==
    [is_none |-> TRUE, veg_report_data |-> EmptyFrame, vendor_report_data |-> <<>>,
     combined_pdf_buffer |-> NoBuffer, individual_hotel_pdf_buffer |-> NoBuffer]

\* the sheets that are fetched: a sheet without any value, or a header row
\* followed by up to MaxRows rows drawn from Rows
RECURSIVE SeqsUpTo(_, _)
SeqsUpTo(S, n) ==
    IF n = 0 THEN {<<>>}
    ELSE LET shorter == SeqsUpTo(S, n - 1)
         IN shorter \cup {Append(s, x) : s \in {t \in shorter : Len(t) = n - 1}, x \in S}

Sheets(Rows) ==
    {[has_values |-> FALSE, rows |-> <<>>]}
        \cup {[has_values |-> TRUE, rows |-> r] : r \in SeqsUpTo(Rows, MaxRows)}

Row(date, hotel, vendor, veg, telugu, units, quantity) ==
    [DATE |-> date, MAIN_HOTEL_NAME |-> hotel, VENDOR |-> vendor,
     PIVOT_VEGETABLE_NAME |-> veg, TELUGU_NAME |-> telugu, UNITS |-> units,
     QUANTITY |-> quantity]

\* st.date_input: the date the reports are asked for
TargetDates == {<<2024, 1, 15>>}

\* rows that differ in hotel, vendor and unit, and the rows of kilograms
\* ordered from V1 under a second Telugu spelling
PivotRows ==
    {Row(DATE_15, h, v, TOMATO, TELUGU1, u, QTY_2) :
        h \in {NOVOTEL, ITC}, v \in {V1, V2}, u \in {KG, BOX}}
    \cup {Row(DATE_15, h, V1, TOMATO, TELUGU2, KG, QTY_2) : h \in {NOVOTEL, ITC}}

\* rows that differ in hotel only
HotelRows ==
    {Row(DATE_15, h, V1, TOMATO, TELUGU1, KG, QTY_2) :
        h \in {NOVOTEL, GRANDBAY, BHEEMILI_SP, ITC, TAJ}}

\* rows that differ in date and quantity: every quantity cell on the target
\* date, and a number and a non-number on the other dates
NormalizerRows ==
    {Row(DATE_15, NOVOTEL, V1, TOMATO, TELUGU1, KG, q) :
        q \in {QTY_ABC, QTY_0, QTY_NEG3, QTY_2, QTY_5}}
    \cup {Row(d, NOVOTEL, V1, TOMATO, TELUGU1, KG, q) :
            d \in {DATE_16, DATE_ISO}, q \in {QTY_ABC, QTY_5}}

\* rows of three hotels, on the target date, on another date, or with quantity 0
EmptyHotelRows ==
    {Row(dq[1], h, V1, TOMATO, TELUGU1, KG, dq[2]) :
        h \in {NOVOTEL, GRANDBAY, ITC},
        dq \in {<<DATE_15, QTY_2>>, <<DATE_16, QTY_2>>, <<DATE_15, QTY_0>>}}

\* rows that differ in vendor (two names, the empty string, a missing cell) and hotel
VendorRows ==
    {Row(DATE_15, h, v, TOMATO, TELUGU1, KG, QTY_2) :
        h \in {NOVOTEL, ITC}, v \in {V1, V2, EMPTY_STR, NONE}}

\* rows of a vegetable ordered in two units and of a vegetable whose own name
\* ends in a parenthesised unit
NameRows ==
    {Row(DATE_15, h, V1, veg, TELUGU1, u, QTY_2) :
        h \in {NOVOTEL, ITC}, veg \in {TOMATO, TOMATO_KG}, u \in {KG, BOX}}

InitWith(Rows) ==
    /\ sheet \in Sheets(Rows)
    /\ selected_date \in TargetDates
    /\ pc = "start"
    /\ df = <<>>
    /\ filtered_df = <<>>
    /\ veg_report_data = EmptyFrame
    /\ vendor_report_data = <<>>
    /\ combined_pdf_buffer = NoBuffer
    /\ individual_hotel_pdf_buffer = NoBuffer
    /\ result = NoneResult
    /\ messages = <<>>

Init == InitWith(PivotRows)

\* GetGoogleSheetsData without main's test "if not df.empty"
GetGoogleSheetsData_NoEmptyTest ==
    /\ pc = "start"
    /\ \E fetch_ok \in BOOLEAN :
         LET fetched == IF fetch_ok THEN sheet.rows ELSE <<>>
             from_fetch == IF ~fetch_ok
                           THEN <<Message("error", "Error fetching data from Google Sheets")>>
                           ELSE IF ~sheet.has_values
                           THEN <<Message("error", "No data found in the sheet")>>
                           ELSE <<>>
         IN /\ df' = fetched
            /\ pc' = "process"
            /\ messages' = messages \o from_fetch
    /\ UNCHANGED <<sheet, selected_date, filtered_df, veg_report_data, vendor_report_data,
                   combined_pdf_buffer, individual_hotel_pdf_buffer, result>>

\* get_google_sheets_data, and main's test of what it returned (lines 665-667,
\* 740-743)
GetGoogleSheetsData ==
    /\ pc = "start"
    /\ \E fetch_ok \in BOOLEAN :
         LET fetched == IF fetch_ok THEN sheet.rows ELSE <<>>
             from_fetch == IF ~fetch_ok
                           THEN <<Message("error", "Error fetching data from Google Sheets")>>
                           ELSE IF ~sheet.has_values
                           THEN <<Message("error", "No data found in the sheet")>>
                           ELSE <<>>
         IN /\ df' = fetched
            /\ IF fetched # <<>>
               THEN /\ pc' = "process"
                    /\ messages' = messages \o from_fetch
               ELSE /\ pc' = "done"
                    /\ messages' = messages \o from_fetch
                          \o <<Message("error", "Failed to fetch data from Google Sheets.")>>
    /\ UNCHANGED <<sheet, selected_date, filtered_df, veg_report_data, vendor_report_data,
                   combined_pdf_buffer, individual_hotel_pdf_buffer, result>>

\* generate_reports, lines 585-588: process_data_for_date and the test of its result
ProcessDataForDate ==
    /\ pc = "process"
    /\ df' = WithParsedDates(df)
    /\ filtered_df' = process_data_for_date(df, selected_date)
    /\ messages' = IF DateFiltered(WithParsedDates(df), selected_date) = <<>>
                   THEN Append(messages, Message("warning", "No data found for date"))
                   ELSE messages
    /\ IF filtered_df' = <<>>
       THEN pc' = "returned" /\ result' = NoneResult
       ELSE pc' = "vegetable" /\ UNCHANGED result
    /\ UNCHANGED <<sheet, selected_date, veg_report_data, vendor_report_data,
                   combined_pdf_buffer, individual_hotel_pdf_buffer>>

\* generate_reports, line 591
CreateVegetableReportData ==
    /\ pc = "vegetable"
    /\ veg_report_data' = create_vegetable_report_data(filtered_df)
    /\ pc' = "vendor"
    /\ UNCHANGED <<sheet, selected_date, df, filtered_df, vendor_report_data,
                   combined_pdf_buffer, individual_hotel_pdf_buffer, result, messages>>

\* generate_reports, line 592
CreateVendorReportData ==
    /\ pc = "vendor"
    /\ vendor_report_data' = create_vendor_report_data(filtered_df)
    /\ pc' = "combined"
    /\ UNCHANGED <<sheet, selected_date, df, filtered_df, veg_report_data,
                   combined_pdf_buffer, individual_hotel_pdf_buffer, result, messages>>

\* generate_reports, line 595, and the except clause when the call raises
CreateCombinedReportPdf ==
    /\ pc = "combined"
    /\ \E render_ok \in BOOLEAN :
         LET buffer == create_combined_report_pdf(veg_report_data, vendor_report_data,
                                                  render_ok)
         IN /\ combined_pdf_buffer' = buffer
            /\ IF buffer.raised
               THEN /\ pc' = "returned"
                    /\ result' = NoneResult
                    /\ messages' = Append(messages, Message("error", "Error generating reports"))
               ELSE /\ pc' = "individual"
                    /\ UNCHANGED <<result, messages>>
    /\ UNCHANGED <<sheet, selected_date, df, filtered_df, veg_report_data,
                   vendor_report_data, individual_hotel_pdf_buffer>>

\* generate_reports, lines 598-600, and the except clause when the call raises
CreateIndividualHotelReportsPdf ==
    /\ pc = "individual"
    /\ \E render_ok \in BOOLEAN :
         LET buffer == create_individual_hotel_reports_pdf(filtered_df, render_ok)
         IN /\ individual_hotel_pdf_buffer' = buffer
            /\ pc' = "returned"
            /\ IF buffer.raised
               THEN /\ result' = NoneResult
                    /\ messages' = Append(messages, Message("error", "Error generating reports"))
               ELSE /\ result' = [is_none |-> FALSE,
                                  veg_report_data |-> veg_report_data,
                                  vendor_report_data |-> vendor_report_data,
                                  combined_pdf_buffer |-> combined_pdf_buffer,
                                  individual_hotel_pdf_buffer |-> buffer]
                    /\ UNCHANGED messages
    /\ UNCHANGED <<sheet, selected_date, df, filtered_df, veg_report_data,
                   vendor_report_data, combined_pdf_buffer>>

\* main, lines 684-731: what is shown for the returned tuple
ShowResult ==
    /\ pc = "returned"
    /\ messages' = Append(messages,
                          IF ~result.is_none
                          THEN Message("success", "Data processed successfully")
                          ELSE Message("warning", "No data found for the selected date."))
    /\ pc' = "done"
    /\ UNCHANGED <<sheet, selected_date, df, filtered_df, veg_report_data,
                   vendor_report_data, combined_pdf_buffer, individual_hotel_pdf_buffer,
                   result>>

Next ==
    \/ GetGoogleSheetsData
    \/ ProcessDataForDate
    \/ CreateVegetableReportData
    \/ CreateVendorReportData
    \/ CreateCombinedReportPdf
    \/ CreateIndividualHotelReportsPdf
    \/ ShowResult

Spec == Init /\ [][Next]_vars

\* the run on sheets whose rows differ in hotel only
SpecHotels == InitWith(HotelRows) /\ [][Next]_vars

\* the run on sheets whose rows differ in date and quantity
SpecNormalizer == InitWith(NormalizerRows) /\ [][Next]_vars

\* the run on sheets in which a hotel may have no row that survives normalisation
SpecEmptyHotel == InitWith(EmptyHotelRows) /\ [][Next]_vars

\* the run on sheets whose vendor cells may be empty or missing
SpecNames == InitWith(NameRows) /\ [][Next]_vars

SpecVendors == InitWith(VendorRows) /\ [][Next]_vars

----------------------------------------------------------------------------
(* Vocabulary of the properties *)

\* the call of the function has returned in this run
Processed == pc \notin {"start", "process"} /\ df # <<>>
VegetableBuilt == Processed /\ filtered_df # <<>> /\ pc # "vegetable"
VendorBuilt == VegetableBuilt /\ pc # "vendor"
IndividualBuilt == ~individual_hotel_pdf_buffer.is_none

\* the records of a vendor's scope
VendorScope(vendor) == SelectSeq(filtered_df, LAMBDA r : r.VENDOR = vendor)

\* the pivot tables of the run, each with the scope it was built over
VegetableTables ==
    IF VegetableBuilt THEN {[table |-> veg_report_data, scope |-> filtered_df]} ELSE {}

VendorTables ==
    IF VendorBuilt
    THEN {[table |-> vendor_report_data[i].data,
           scope |-> VendorScope(vendor_report_data[i].vendor)] :
             i \in 1..Len(vendor_report_data)}
    ELSE {}

PivotTables == VegetableTables \cup VendorTables

HotelsOf(scope) == {r.MAIN_HOTEL_NAME : r \in Range(scope)}
KeysOf(scope) == {<<r.PIVOT_VEGETABLE_NAME, r.UNITS>> : r \in Range(scope)}
UnitsOf(scope, veg) == {r.UNITS : r \in {x \in Range(scope) : x.PIVOT_VEGETABLE_NAME = veg}}

\* the sum of the quantities of the records of a key (and of a hotel) in a scope
RECURSIVE QtyOfKey(_, _, _, _)
QtyOfKey(scope, veg, units, n) ==
    IF n = 0 THEN 0
    ELSE QtyOfKey(scope, veg, units, n - 1)
           + (IF scope[n].PIVOT_VEGETABLE_NAME = veg /\ scope[n].UNITS = units
              THEN scope[n].QUANTITY ELSE 0)

\* the number a formatted quantity "{qty} {units}" starts with
CellQty(cell) == DigitsVal(Split(cell, 32)[1])

RECURSIVE SumCells(_, _)
SumCells(row, hotels) ==
    IF hotels = <<>> THEN 0 ELSE CellQty(row.cells[Head(hotels)]) + SumCells(row, Tail(hotels))

NoDuplicates(s) == \A i, j \in 1..Len(s) : s[i] = s[j] => i = j

IndexIn(s, x) == CHOOSE i \in 1..Len(s) : s[i] = x

\* a before b under the hotel ordering policy with the preferred list desired
PolicyBefore(a, b, desired) ==
    IF a \in Range(desired)
    THEN b \in Range(desired) => IndexIn(desired, a) < IndexIn(desired, b)
    ELSE b \notin Range(desired) /\ StrLess(a, b)

\* cols is the policy's output for the set present of hotels
IsPolicyOutput(cols, present, desired) ==
    /\ NoDuplicates(cols)
    /\ Range(cols) = present
    /\ \A i, j \in 1..Len(cols) : i < j => PolicyBefore(cols[i], cols[j], desired)

Perms(n) == {p \in [1..n -> 1..n] : \A i, j \in 1..n : p[i] = p[j] => i = j}
Permuted(s, p) == [i \in 1..Len(s) |-> s[p[i]]]

\* what a pivot row shows
Visible(row) ==
    [PIVOT_VEGETABLE_NAME |-> row.PIVOT_VEGETABLE_NAME, Telugu_Name |-> row.Telugu_Name,
     cells |-> row.cells, Total |-> row.Total]
VisibleRows(frame) == [i \in 1..Len(frame.rows) |-> Visible(frame.rows[i])]

----------------------------------------------------------------------------
(* Properties *)

\* C1: in the vegetable pivot and in every vendor pivot, the total of every
\* row equals the sum of the row's per-hotel cells, and both equal the sum of
\* the quantities of all records of the row's (vegetable, unit) key in the
\* table's scope (whole date, or the vendor's records).
C1_TotalsExact ==
    \A t \in PivotTables :
        \A i \in 1..Len(t.table.rows) :
            LET row == t.table.rows[i] IN
            /\ CellQty(row.Total) = SumCells(row, t.table.columns)
            /\ CellQty(row.Total)
                 = QtyOfKey(t.scope, row.key_veg, row.key_units, Len(t.scope))

\* a vegetable-pivot row that adds three records over two hotels, beside a
\* vendor pivot whose row for the same key adds fewer
C1_Witness ==
    /\ VendorBuilt
    /\ \E i \in 1..Len(veg_report_data.rows) :
         LET row == veg_report_data.rows[i] IN
         /\ CellQty(row.Total) = 6
         /\ \E h1, h2 \in DOMAIN row.cells :
              CellQty(row.cells[h1]) = 4 /\ CellQty(row.cells[h2]) = 2
         /\ \E t \in VendorTables : \E j \in 1..Len(t.table.rows) :
              /\ t.table.rows[j].key_units = row.key_units
              /\ CellQty(t.table.rows[j].Total) = 4

\* C2: the vegetable pivot has exactly one row per distinct (vegetable, unit)
\* pair of the record set, and each vendor pivot exactly one row per distinct
\* pair of the vendor's records, whatever the Telugu names are.
C2_OneRowPerKey ==
    \A t \in PivotTables :
        /\ Len(t.table.rows) = Cardinality(KeysOf(t.scope))
        /\ \A k \in KeysOf(t.scope) :
             Cardinality({i \in 1..Len(t.table.rows) :
                            <<t.table.rows[i].key_veg, t.table.rows[i].key_units>> = k}) = 1

\* C3, as claimed: the hotel columns of a vendor's pivot are the hotels of that
\* vendor's own records; a hotel without a record of the vendor is no column.
C3_ColumnsOfVendorRowsOnly ==
    \A t \in VendorTables : Range(t.table.columns) = HotelsOf(t.scope)

\* C3, amended: the hotel columns of every vendor's pivot are the hotel
\* ordering policy's output for the whole normalised record set, the columns
\* of the vegetable pivot; a hotel with records on the date but none of the
\* vendor is a column whose cells all read "0 {unit}".
C3_VendorColumnsOfWholeDate ==
    \A t \in VendorTables :
        /\ IsPolicyOutput(t.table.columns, HotelsOf(filtered_df), desired_hotel_order_vendor)
        /\ t.table.columns = veg_report_data.columns
        /\ \A h \in HotelsOf(filtered_df) \ HotelsOf(t.scope) :
             \A i \in 1..Len(t.table.rows) :
                 /\ h \in DOMAIN t.table.rows[i].cells
                 /\ t.table.rows[i].cells[h] = <<48>> \o SP \o t.table.rows[i].key_units

\* a vendor's pivot with the column of a hotel that ordered from another vendor only
C3_Witness ==
    \E t \in VendorTables :
        /\ t.table.rows # <<>>
        /\ \E h \in Range(t.table.columns) : h \notin HotelsOf(t.scope)

\* C4: the hotels appear as sections of the individual-hotel report in the
\* order of the hotel columns of the vegetable pivot of the same record set.
C4_SameHotelOrder ==
    IndividualBuilt =>
        [i \in 1..Len(individual_hotel_pdf_buffer.story) |->
            individual_hotel_pdf_buffer.story[i].hotel] = veg_report_data.columns

\* C5: the hotel columns of the vegetable pivot are a duplicate-free listing of
\* the hotels present: the preferred ones in their listed order, then the
\* others ascending; every permutation of the input rows gives the same list.
C5_HotelColumns ==
    VegetableBuilt =>
        /\ IsPolicyOutput(veg_report_data.columns, HotelsOf(filtered_df),
                          desired_hotel_order_vegetable)
        /\ \A p \in Perms(Len(filtered_df)) :
             create_vegetable_report_data(Permuted(filtered_df, p)).columns
               = veg_report_data.columns

\* rows that name ITC, GRANDBAY and NOVOTEL in this order
C5_Witness ==
    /\ VegetableBuilt
    /\ AvailableHotels(filtered_df) = <<ITC, GRANDBAY, NOVOTEL>>
    /\ veg_report_data.columns = <<NOVOTEL, GRANDBAY, ITC>>

\* C6: in every scope a vegetable with one distinct unit yields a single row
\* carrying the bare name, and a vegetable with several distinct units yields
\* one row per unit, named "{vegetable} ({unit})".
C6_RowsPerScope ==
    \A t \in PivotTables :
        \A k \in KeysOf(t.scope) :
            LET of_key == {i \in 1..Len(t.table.rows) :
                             <<t.table.rows[i].key_veg, t.table.rows[i].key_units>> = k}
            IN /\ Cardinality(of_key) = 1
               /\ \A i \in of_key :
                    t.table.rows[i].PIVOT_VEGETABLE_NAME
                      = IF Cardinality(UnitsOf(t.scope, k[1])) = 1
                        THEN k[1]
                        ELSE k[1] \o SP \o LPAR \o k[2] \o RPAR

\* the naming half of C6, which the code keeps: a row carries the bare name
\* exactly when its vegetable has one distinct unit in the table's scope
C6_NameFollowsScope ==
    \A t \in PivotTables :
        \A i \in 1..Len(t.table.rows) :
            LET row == t.table.rows[i] IN
            /\ (row.PIVOT_VEGETABLE_NAME = row.key_veg)
                 <=> (Cardinality(UnitsOf(t.scope, row.key_veg)) = 1)
            /\ (row.PIVOT_VEGETABLE_NAME # row.key_veg)
                 => row.PIVOT_VEGETABLE_NAME
                      = row.key_veg \o SP \o LPAR \o row.key_units \o RPAR

\* C7: the rows of every pivot are in strictly ascending order of display
\* name, and every permutation of the input rows gives the same rows in the
\* same order.
C7_SortedAndOrderIndependent ==
    /\ \A t \in PivotTables :
         \A i \in 1..(Len(t.table.rows) - 1) :
             StrLess(t.table.rows[i].PIVOT_VEGETABLE_NAME,
                     t.table.rows[i + 1].PIVOT_VEGETABLE_NAME)
    /\ VendorBuilt =>
         \A p \in Perms(Len(filtered_df)) :
             /\ VisibleRows(create_vegetable_report_data(Permuted(filtered_df, p)))
                  = VisibleRows(veg_report_data)
             /\ LET other == create_vendor_report_data(Permuted(filtered_df, p))
                IN /\ Len(other) = Len(vendor_report_data)
                   /\ \A i \in 1..Len(other) :
                        /\ other[i].vendor = vendor_report_data[i].vendor
                        /\ VisibleRows(other[i].data) = VisibleRows(vendor_report_data[i].data)

\* what the cells of the model's sheets mean
ExpectedDate(cell) ==
    CASE cell = DATE_15 -> <<2024, 1, 15>>
      [] cell = DATE_16 -> <<2024, 1, 16>>
      [] OTHER -> NaT

ExpectedQuantity(cell) ==
    CASE cell = QTY_2 -> 2
      [] cell = QTY_5 -> 5
      [] cell = QTY_NEG3 -> -3
      [] OTHER -> 0

\* C8: process_data_for_date returns exactly the fetched rows whose date parses
\* and is the target date and whose quantity is a number greater than 0, date
\* and quantity converted, in the order of the sheet.
C8_NormalizedRows ==
    Processed =>
        filtered_df =
            LET kept == SelectSeq(sheet.rows,
                                  LAMBDA r : /\ ExpectedDate(r.DATE) = selected_date
                                             /\ ExpectedQuantity(r.QUANTITY) > 0)
            IN [i \in 1..Len(kept) |->
                  [kept[i] EXCEPT !.DATE = selected_date,
                                  !.QUANTITY = ExpectedQuantity(kept[i].QUANTITY)]]

\* a sheet with an unparseable date, a non-numeric, a zero or a negative
\* quantity, and a valid row that is returned
C8_Witness ==
    /\ Processed
    /\ Len(filtered_df) = 1
    /\ \E r \in Range(sheet.rows) : r.DATE = DATE_ISO /\ r.QUANTITY = QTY_5
    /\ \E r \in Range(sheet.rows) :
         r.DATE = DATE_15 /\ r.QUANTITY \in {QTY_ABC, QTY_0, QTY_NEG3}

\* C9: every row of every pivot has exactly one cell for every hotel column of
\* its table, and the cell of a hotel without a record of the row's key in the
\* table's scope reads "0 {unit}" with the row's unit.
C9_Rectangular ==
    \A t \in PivotTables :
        /\ NoDuplicates(t.table.columns)
        /\ \A i \in 1..Len(t.table.rows) :
             LET row == t.table.rows[i] IN
             /\ DOMAIN row.cells = Range(t.table.columns)
             /\ \A h \in Range(t.table.columns) :
                  (~\E r \in Range(t.scope) :
                       /\ r.MAIN_HOTEL_NAME = h
                       /\ r.PIVOT_VEGETABLE_NAME = row.key_veg
                       /\ r.UNITS = row.key_units)
                    => row.cells[h] = <<48>> \o SP \o row.key_units

\* a vegetable-pivot row with a filled cell and a zero-filled cell
C9_Witness ==
    /\ VegetableBuilt
    /\ \E i \in 1..Len(veg_report_data.rows) :
         LET row == veg_report_data.rows[i] IN
         \E h1, h2 \in Range(veg_report_data.columns) :
             /\ row.cells[h1] = <<48>> \o SP \o row.key_units
             /\ CellQty(row.cells[h2]) > 0

\* C10: every hotel of the fetched sheet has its own section in the
\* individual-hotel report, and the section of a hotel without a row for the
\* target date carries the "no orders" marker.
C10_EveryHotelHasSection ==
    IndividualBuilt =>
        \A h \in HotelsOf(df) :
            \E i \in 1..Len(individual_hotel_pdf_buffer.story) :
                LET section == individual_hotel_pdf_buffer.story[i] IN
                /\ section.hotel = h
                /\ (h \notin HotelsOf(filtered_df)) => section.body = "no_orders"

\* C11: the keys of the vendor pivot mapping are exactly the vendor names of
\* the normalised records that are neither missing nor the empty string, in
\* ascending order, and no key maps to a table without rows.
C11_VendorKeys ==
    VendorBuilt =>
        /\ {vendor_report_data[i].vendor : i \in 1..Len(vendor_report_data)}
             = {r.VENDOR : r \in Range(filtered_df)} \ {NONE, EMPTY_STR}
        /\ \A i \in 1..(Len(vendor_report_data) - 1) :
             StrLess(vendor_report_data[i].vendor, vendor_report_data[i + 1].vendor)
        /\ \A i \in 1..Len(vendor_report_data) : vendor_report_data[i].data.rows # <<>>

\* records of a nameless vendor, of V2 and of V1, in this order
C11_Witness ==
    /\ VendorBuilt
    /\ Len(filtered_df) = 3
    /\ filtered_df[1].VENDOR \in {NONE, EMPTY_STR}
    /\ filtered_df[2].VENDOR = V2
    /\ filtered_df[3].VENDOR = V1
    /\ Len(vendor_report_data) = 2

\* C12: when building one of the two documents fails inside generate_reports,
\* the caller still receives the other document and the pivot tables.
C12_FailureIsLocal ==
    pc \in {"returned", "done"} =>
        /\ combined_pdf_buffer.raised =>
             /\ ~result.is_none
             /\ result.veg_report_data = veg_report_data
             /\ result.vendor_report_data = vendor_report_data
             /\ ~result.individual_hotel_pdf_buffer.is_none
        /\ individual_hotel_pdf_buffer.raised =>
             /\ ~result.is_none
             /\ result.veg_report_data = veg_report_data
             /\ result.vendor_report_data = vendor_report_data
             /\ result.combined_pdf_buffer = combined_pdf_buffer

SourceFailure == Message("error", "Failed to fetch data from Google Sheets.")
NoDataWarning == Message("warning", "No data found for the selected date.")

NoDocument ==
    /\ result.is_none
    /\ combined_pdf_buffer.is_none
    /\ individual_hotel_pdf_buffer.is_none

\* C13: a run on a fetched table without rows ends with the source-failure
\* error, without report generation having run and without a document; a run
\* on a table with rows of which none survives normalisation ends with the
\* no-data warning, without the source-failure error and without a document.
C13_EmptyOutcomes ==
    pc = "done" =>
        /\ df = <<>> =>
             /\ messages[Len(messages)] = SourceFailure
             /\ \A i \in 1..Len(messages) : messages[i].level = "error"
             /\ filtered_df = <<>>
             /\ NoDocument
        /\ (df # <<>> /\ filtered_df = <<>>) =>
             /\ messages[Len(messages)] = NoDataWarning
             /\ \A i \in 1..Len(messages) : messages[i].level = "warning"
             /\ NoDocument

\* a finished run on a sheet whose only rows for the target date have a
\* quantity that is not positive
C13_Witness ==
    /\ pc = "done"
    /\ filtered_df = <<>>
    /\ \E i \in 1..Len(df) : df[i].DATE = selected_date
    /\ \E i \in 1..Len(df) : df[i].DATE # selected_date

HotelScope(hotel) == SelectSeq(filtered_df, LAMBDA r : r.MAIN_HOTEL_NAME = hotel)

Sections == Range(individual_hotel_pdf_buffer.story)

\* C14: the list of a hotel has one entry per (vegetable, unit) key of the
\* hotel's rows with a positive sum, named with the unit suffix exactly when the
\* vegetable has several units among the hotel's rows, in ascending order of
\* display name, and the summary counts the entries listed.
C14_HotelList ==
    IndividualBuilt =>
        \A s \in Sections :
            LET scope == HotelScope(s.hotel)
                keys == {k \in KeysOf(scope) : QtyOfKey(scope, k[1], k[2], Len(scope)) > 0}
            IN /\ {<<s.table[i].key_veg, s.table[i].key_units>> : i \in 1..Len(s.table)} = keys
               /\ Len(s.table) = Cardinality(keys)
               /\ \A i \in 1..Len(s.table) :
                    s.table[i].name =
                        IF Cardinality(UnitsOf(scope, s.table[i].key_veg)) > 1
                        THEN s.table[i].key_veg \o SP \o LPAR \o s.table[i].key_units \o RPAR
                        ELSE s.table[i].key_veg
               /\ \A i \in 1..(Len(s.table) - 1) :
                    ~StrLess(s.table[i + 1].name, s.table[i].name)
               /\ s.total_items = Len(s.table)

\* C15: create_combined_report_pdf does not raise for any combination of an
\* empty or non-empty vegetable table and vendor mapping, and its story has the
\* placeholder of each empty part and one section per vendor otherwise.
C15_NeverRaisesOnEmptyScope ==
    VendorBuilt =>
        \A veg_data \in {EmptyFrame, veg_report_data} :
            \A vendor_data \in {<<>>, vendor_report_data} :
                LET buffer == create_combined_report_pdf(veg_data, vendor_data, TRUE)
                    kinds == [i \in 1..Len(buffer.story) |-> buffer.story[i].kind]
                IN /\ ~buffer.raised
                   /\ veg_data.rows = <<>> <=> "NoVegetableData" \in Range(kinds)
                   /\ vendor_data = <<>> <=> "NoVendorData" \in Range(kinds)
                   /\ {b.vendor : b \in {x \in Range(buffer.story) : x.kind = "VendorTitle"}}
                        = {vendor_data[i].vendor : i \in 1..Len(vendor_data)}

\* the entries of a key in the section of a hotel, and the rows of the key in
\* the vegetable pivot
ListedEntries(hotel, k) ==
    {e \in UNION {Range(s.table) : s \in {x \in Sections : x.hotel = hotel}} :
        e.key_veg = k[1] /\ e.key_units = k[2]}

PivotRowsOfKey(k) ==
    {r \in Range(veg_report_data.rows) : r.key_veg = k[1] /\ r.key_units = k[2]}

\* C16: a key is listed in the section of a hotel in the individual-hotel
\* report exactly when the cell of the key and the hotel in the vegetable pivot
\* is not zero, and the quantity and unit listed are those of the cell.
C16_CrossReportConsistency ==
    IndividualBuilt =>
        \A hotel \in HotelsOf(filtered_df) :
            \A k \in KeysOf(filtered_df) :
                /\ PivotRowsOfKey(k) # {}
                /\ \A r \in PivotRowsOfKey(k) :
                     /\ ListedEntries(hotel, k) # {} <=> CellQty(r.cells[hotel]) # 0
                     /\ \A e \in ListedEntries(hotel, k) : e.quantity = r.cells[hotel]

\* a hotel that lists the kilograms, whose cell is "2 kg", and not the boxes,
\* whose cell is "0 box"
C16_Witness ==
    /\ IndividualBuilt
    /\ ListedEntries(NOVOTEL, <<TOMATO, KG>>) # {}
    /\ ListedEntries(NOVOTEL, <<TOMATO, BOX>>) = {}
    /\ \E r \in PivotRowsOfKey(<<TOMATO, BOX>>) : r.cells[NOVOTEL] = FormatQty(0, BOX)
    /\ \E r \in PivotRowsOfKey(<<TOMATO, KG>>) : r.cells[NOVOTEL] = FormatQty(2, KG)

\* C17: in one pivot table two rows of distinct (vegetable, unit) keys never
\* have the same display name.
C17_DisplayNameInjective ==
    \A t \in PivotTables :
        \A i, j \in 1..Len(t.table.rows) :
            LET a == t.table.rows[i]
                b == t.table.rows[j]
            IN <<a.key_veg, a.key_units>> # <<b.key_veg, b.key_units>>
                   => a.PIVOT_VEGETABLE_NAME # b.PIVOT_VEGETABLE_NAME

====
